---- MODULE Spec2Model ----
(***************************************************************************)
(* Model of the selection pipeline of code2md (src/main.py):               *)
(* should_exclude, parse_operator_value, get_sort_key, is_text_file and    *)
(* process_directory.  Python strings are sequences of one-character       *)
(* strings; a path below the root is the sequence of its segments.         *)
(***************************************************************************)
EXTENDS Integers, Sequences, FiniteSets, TLC

VARIABLES
    args,                  \* the command line of the run
    fs,                    \* the files below the root directory
    pc,                    \* position in process_directory
    all_exclude_patterns,  \* explicit rules followed by the ignore-file rules
    pending,               \* directories os.walk has still to yield
    text_files,            \* the accepted paths
    x_rel, x_isdir, x_patterns, x_result,   \* one call of should_exclude
    q_size, q_filter, q_result              \* one evaluation of the size filter

vars == <<args, fs, pc, all_exclude_patterns, pending, text_files,
          x_rel, x_isdir, x_patterns, x_result, q_size, q_filter, q_result>>

\* None; an option that was not given is the empty sequence, which is as falsy
\* as None in the tests "if args.x"; max_depth n is carried as <<n>>
None == <<>>

(* ------------------------------------------------------------------ *)
(* Python str methods used by the program                              *)
(* ------------------------------------------------------------------ *)

StartsWith(s, pre) ==
    /\ Len(pre) <= Len(s)
    /\ SubSeq(s, 1, Len(pre)) = pre

EndsWith(s, suf) ==
    /\ Len(suf) <= Len(s)
    /\ SubSeq(s, Len(s) - Len(suf) + 1, Len(s)) = suf

\* s.lstrip(c) for a one-character c
RECURSIVE LStrip(_, _)
LStrip(s, c) ==
    IF s # <<>> /\ Head(s) = c THEN LStrip(Tail(s), c) ELSE s

\* s.rstrip(c) for a one-character c
RECURSIVE RStrip(_, _)
RStrip(s, c) ==
    IF s # <<>> /\ s[Len(s)] = c THEN RStrip(SubSeq(s, 1, Len(s) - 1), c) ELSE s

\* s.strip(): whitespace removed at both ends
Strip(s) == RStrip(LStrip(s, " "), " ")

\* c in s, for a one-character c
Contains(s, c) == \E i \in 1..Len(s) : s[i] = c

\* s.count(c) for a one-character c
RECURSIVE Count(_, _)
Count(s, c) ==
    IF s = <<>> THEN 0
    ELSE (IF Head(s) = c THEN 1 ELSE 0) + Count(Tail(s), c)

\* sep.join(parts)
RECURSIVE Join(_, _)
Join(parts, sep) ==
    IF parts = <<>> THEN <<>>
    ELSE IF Len(parts) = 1 THEN parts[1]
    ELSE parts[1] \o sep \o Join(Tail(parts), sep)

\* str.lower() / str.upper() on the letters the inputs use
LowerChar(c) ==
    CASE c = "T" -> "t" [] c = "K" -> "k" [] c = "B" -> "b" [] c = "M" -> "m"
      [] c = "J" -> "j" [] OTHER -> c

UpperChar(c) ==
    CASE c = "t" -> "T" [] c = "k" -> "K" [] c = "b" -> "B" [] c = "m" -> "M"
      [] c = "j" -> "J" [] OTHER -> c

Lower(s) == [i \in 1..Len(s) |-> LowerChar(s[i])]
Upper(s) == [i \in 1..Len(s) |-> UpperChar(s[i])]

(* ------------------------------------------------------------------ *)
(* fnmatch.fnmatch on POSIX: '*' any run of characters ('/' included), *)
(* '?' one character, anything else itself; the whole name must match. *)
(* ------------------------------------------------------------------ *)
RECURSIVE FnmatchFrom(_, _, _, _)
FnmatchFrom(name, pat, i, j) ==
    IF j > Len(pat) THEN i > Len(name)
    ELSE IF pat[j] = "*"
         THEN \/ FnmatchFrom(name, pat, i, j + 1)
              \/ (i <= Len(name) /\ FnmatchFrom(name, pat, i + 1, j))
    ELSE IF pat[j] = "?"
         THEN i <= Len(name) /\ FnmatchFrom(name, pat, i + 1, j + 1)
    ELSE i <= Len(name) /\ name[i] = pat[j] /\ FnmatchFrom(name, pat, i + 1, j + 1)

fnmatch(name, pat) == FnmatchFrom(name, pat, 1, 1)

(* ------------------------------------------------------------------ *)
(* should_exclude                                                      *)
(* ------------------------------------------------------------------ *)

\* os.path.relpath(path, root_dir).replace(os.sep, '/')
RelPath(segs) == Join(segs, <<"/">>)

\* the pattern after lstrip('/') and rstrip('/')
NormalizedRule(pattern) == RStrip(LStrip(pattern, "/"), "/")

\* the fnmatch pattern built from one rule
MatchPattern(pattern) ==
    LET p0 == NormalizedRule(pattern)
        p1 == IF EndsWith(pattern, <<"/">>) THEN p0 \o <<"/", "*", "*">> ELSE p0
        p2 == IF EndsWith(p1, <<"*">>) /\ ~EndsWith(p1, <<"*", "*">>)
              THEN RStrip(p1, "*") \o <<"/", "*">>
              ELSE p1
    IN  IF Contains(p2, "/") THEN p2 ELSE <<"*", "*", "/">> \o p2

\* one iteration of the loop over the patterns: TRUE when it returns True
RuleHits(rel_path, is_dir, pattern) ==
    \/ (StartsWith(pattern, <<"/">>) /\ rel_path = NormalizedRule(pattern))
    \/ fnmatch(rel_path, MatchPattern(pattern))
    \/ (is_dir /\ fnmatch(rel_path \o <<"/">>, MatchPattern(pattern) \o <<"/", "*">>))

should_exclude(rel_path, is_dir, patterns) ==
    \E k \in 1..Len(patterns) : RuleHits(rel_path, is_dir, patterns[k])

(* ------------------------------------------------------------------ *)
(* parse_operator_value and the two operator-value filters             *)
(* ------------------------------------------------------------------ *)

OpChars == {"<", ">", "="}
Digits == <<"0", "1", "2", "3", "4", "5", "6", "7", "8", "9">>
IsDigit(c) == \E i \in 1..10 : Digits[i] = c
DigitVal(c) == (CHOOSE i \in 1..10 : Digits[i] = c) - 1

\* length of the longest prefix of s made of operator characters
RECURSIVE OpPrefixLen(_)
OpPrefixLen(s) ==
    IF s # <<>> /\ Head(s) \in OpChars THEN 1 + OpPrefixLen(Tail(s)) ELSE 0

\* re.match(r'([<>=]+)(.+)', pattern): the greedy operator group gives one
\* character back when it swallowed the whole string
parse_operator_value(pattern) ==
    LET n == OpPrefixLen(pattern)
        k == IF n = Len(pattern) THEN n - 1 ELSE n
    IN  IF k < 1
        THEN [ok |-> FALSE, op |-> <<>>, value |-> <<>>]
        ELSE [ok |-> TRUE, op |-> SubSeq(pattern, 1, k),
              value |-> SubSeq(pattern, k + 1, Len(pattern))]

\* int(s): optional sign and decimal digits, surrounding blanks ignored
IntBody(s) ==
    LET t == Strip(s)
    IN  IF t # <<>> /\ Head(t) \in {"+", "-"} THEN Tail(t) ELSE t

IntOk(s) ==
    /\ IntBody(s) # <<>>
    /\ \A i \in 1..Len(IntBody(s)) : IsDigit(IntBody(s)[i])

RECURSIVE DigitsVal(_)
DigitsVal(s) ==
    IF s = <<>> THEN 0
    ELSE 10 * DigitsVal(SubSeq(s, 1, Len(s) - 1)) + DigitVal(s[Len(s)])

IntVal(s) ==
    IF Strip(s) # <<>> /\ Head(Strip(s)) = "-"
    THEN 0 - DigitsVal(IntBody(s))
    ELSE DigitsVal(IntBody(s))

RECURSIVE Pow1024(_)
Pow1024(i) == IF i = 0 THEN 1 ELSE 1024 * Pow1024(i - 1)

Units == <<"B", "K", "M", "G", "T", "P">>
\* 'BKMGTP'.index(c)
UnitIndex(c) == (CHOOSE i \in 1..6 : Units[i] = c) - 1

\* the comparison chain shared by both filters: an operator outside the five
\* known ones falls through every branch
CompareOp(op, lt, eq) ==
    CASE op = <<">", "=">> -> ~lt
      [] op = <<"<", "=">> -> lt \/ eq
      [] op = <<">">>      -> ~lt /\ ~eq
      [] op = <<"<">>      -> lt
      [] op = <<"=", "=">> -> eq
      [] OTHER             -> TRUE

\* the suffix test of the size filter: size[-1] in 'KMGTP'
HasUnit(size) == size[Len(size)] \in {"K", "M", "G", "T", "P"}

\* the text handed to int() and the multiplier
SizeDigits(size) == IF HasUnit(size) THEN SubSeq(size, 1, Len(size) - 1) ELSE size
SizeMultiplier(size) == IF HasUnit(size) THEN Pow1024(UnitIndex(size[Len(size)])) ELSE 1

\* the file size filter: TRUE when the candidate goes on to the next filter
SizeFilterPasses(file_size, filter) ==
    LET pv == parse_operator_value(filter)
        size == Upper(pv.value)
    IN  /\ pv.ok
        /\ IntOk(SizeDigits(size))
        /\ LET target_size == IntVal(SizeDigits(size)) * SizeMultiplier(size)
           IN  CompareOp(pv.op, file_size < target_size, file_size = target_size)

\* split on '-'
RECURSIVE SplitDash(_)
SplitDash(s) ==
    IF ~Contains(s, "-") THEN <<s>>
    ELSE LET i == CHOOSE j \in 1..Len(s) : s[j] = "-" /\ \A h \in 1..(j - 1) : s[h] # "-"
         IN  <<SubSeq(s, 1, i - 1)>> \o SplitDash(SubSeq(s, i + 1, Len(s)))

AllDigits(s) == s # <<>> /\ \A i \in 1..Len(s) : IsDigit(s[i])

IsLeap(y) == (y % 4 = 0 /\ y % 100 # 0) \/ y % 400 = 0

DaysIn(y, m) ==
    IF m = 2 THEN (IF IsLeap(y) THEN 29 ELSE 28)
    ELSE IF m \in {4, 6, 9, 11} THEN 30 ELSE 31

\* datetime.strptime(date_str, "%Y-%m-%d"): ok is FALSE where it raises
strptime(date_str) ==
    LET f == SplitDash(date_str)
        shape == /\ Len(f) = 3
                 /\ Len(f[1]) = 4 /\ AllDigits(f[1])
                 /\ Len(f[2]) \in {1, 2} /\ AllDigits(f[2])
                 /\ Len(f[3]) \in {1, 2} /\ AllDigits(f[3])
    IN  IF ~shape THEN [ok |-> FALSE, t |-> <<0, 0, 0, 0>>]
        ELSE LET y == DigitsVal(f[1])
                 m == DigitsVal(f[2])
                 d == DigitsVal(f[3])
             IN  IF y >= 1 /\ m \in 1..12 /\ d >= 1 /\ d <= DaysIn(y, m)
                 THEN [ok |-> TRUE, t |-> <<y, m, d, 0>>]
                 ELSE [ok |-> FALSE, t |-> <<0, 0, 0, 0>>]

\* datetime comparison on <<year, month, day, second of the day>>
RECURSIVE TupleLess(_, _)
TupleLess(a, b) ==
    IF a = <<>> \/ b = <<>> THEN FALSE
    ELSE Head(a) < Head(b) \/ (Head(a) = Head(b) /\ TupleLess(Tail(a), Tail(b)))

DateOf(t) == SubSeq(t, 1, 3)

\* the modification time filter: TRUE when the candidate goes on
TimeFilterPasses(file_time, filter) ==
    LET pv == parse_operator_value(filter)
    IN  /\ pv.ok
        /\ strptime(pv.value).ok
        /\ LET target_time == strptime(pv.value).t
           IN  IF pv.op = <<"=", "=">>
               THEN DateOf(file_time) = DateOf(target_time)
               ELSE CompareOp(pv.op, TupleLess(file_time, target_time),
                              file_time = target_time)

(* ------------------------------------------------------------------ *)
(* is_text_file, on the MIME type the detector reports for the file    *)
(* ------------------------------------------------------------------ *)
is_text_file(mime) ==
    \/ StartsWith(mime, <<"t", "e", "x", "t", "/">>)
    \/ mime \in { <<"a", "p", "p", "l", "i", "c", "a", "t", "i", "o", "n", "/", "j", "s", "o", "n">>,
                  <<"a", "p", "p", "l", "i", "c", "a", "t", "i", "o", "n", "/", "x", "m", "l">> }

(* ------------------------------------------------------------------ *)
(* get_sort_key and list.sort                                          *)
(* ------------------------------------------------------------------ *)

\* the Han character U+963F, whose pinyin is "a"
HanA == "U963F"

\* lazy_pinyin on one character: a Han character becomes its pinyin,
\* any other character is kept
Pinyin(c) == IF c = HanA THEN <<"a">> ELSE <<c>>

\* trans(name): ''.join(lazy_pinyin(name))
RECURSIVE trans(_)
trans(name) == IF name = <<>> THEN <<>> ELSE Pinyin(Head(name)) \o trans(Tail(name))

get_sort_key(path) ==
    LET parts == path
        depth == Len(parts) - 1
    IN  <<0 - depth>> \o [i \in 1..Len(parts) |-> trans(parts[i])]

\* ord(c) for the characters of the inputs
CodePoint(c) ==
    CASE c = "." -> 46 [] c = "/" -> 47 [] c = "T" -> 84 [] c = "a" -> 97
      [] c = "b" -> 98 [] c = "c" -> 99 [] c = "d" -> 100 [] c = "e" -> 101
      [] c = "g" -> 103 [] c = "h" -> 104 [] c = "i" -> 105 [] c = "j" -> 106
      [] c = "k" -> 107 [] c = "l" -> 108 [] c = "n" -> 110 [] c = "o" -> 111
      [] c = "r" -> 114 [] c = "s" -> 115 [] c = "t" -> 116 [] c = "z" -> 122
      [] c = HanA -> 38463

\* str < str
RECURSIVE StrLess(_, _)
StrLess(a, b) ==
    IF b = <<>> THEN FALSE
    ELSE IF a = <<>> THEN TRUE
    ELSE \/ CodePoint(Head(a)) < CodePoint(Head(b))
         \/ (Head(a) = Head(b) /\ StrLess(Tail(a), Tail(b)))

\* the strings of two keys, compared as tuples
RECURSIVE StrTupleLess(_, _)
StrTupleLess(a, b) ==
    IF b = <<>> THEN FALSE
    ELSE IF a = <<>> THEN TRUE
    ELSE \/ StrLess(Head(a), Head(b))
         \/ (Head(a) = Head(b) /\ StrTupleLess(Tail(a), Tail(b)))

\* key1 < key2 for two sort keys
KeyLess(k1, k2) ==
    \/ k1[1] < k2[1]
    \/ (k1[1] = k2[1] /\ StrTupleLess(Tail(k1), Tail(k2)))

\* a sort that puts an element before the elements it ties with
RECURSIVE InsertByKey_TiesFirst(_, _)
InsertByKey_TiesFirst(sorted, x) ==
    IF sorted = <<>> THEN <<x>>
    ELSE IF ~KeyLess(get_sort_key(Head(sorted)), get_sort_key(x))
         THEN <<x>> \o sorted
         ELSE <<Head(sorted)>> \o InsertByKey_TiesFirst(Tail(sorted), x)

\* list.sort(key=...) is stable: an element goes after every element that
\* does not compare greater than it
RECURSIVE InsertByKey(_, _)
InsertByKey(sorted, x) ==
    IF sorted = <<>> THEN <<x>>
    ELSE IF KeyLess(get_sort_key(x), get_sort_key(Head(sorted)))
         THEN <<x>> \o sorted
         ELSE <<Head(sorted)>> \o InsertByKey(Tail(sorted), x)

RECURSIVE SortByKey(_)
SortByKey(files) ==
    IF files = <<>> THEN <<>>
    ELSE InsertByKey(SortByKey(SubSeq(files, 1, Len(files) - 1)), files[Len(files)])

(* ------------------------------------------------------------------ *)
(* The directory trees and command lines explored                      *)
(* ------------------------------------------------------------------ *)

\* a file: path below the root, whether it is a symbolic link, its size, its
\* modification time <<year, month, day, second>>, the MIME type the detector
\* reports, whether some line matches the content regex, whether it decodes
\* under the configured encoding, and its lines (read for .gitignore only)
F_a ==
    [path |-> <<<<"a", ".", "t">>>>, link |-> FALSE, size |-> 500,
     mtime |-> <<2024, 1, 15, 43200>>,
     mime |-> <<"t", "e", "x", "t", "/", "p", "l", "a", "i", "n">>,
     lines_match |-> TRUE, decodable |-> TRUE,
     lines |-> <<>>]

F_han ==
    [path |-> <<<<HanA, ".", "t">>>>, link |-> FALSE, size |-> 1024,
     mtime |-> <<2024, 1, 16, 1>>,
     mime |-> <<"t", "e", "x", "t", "/", "p", "l", "a", "i", "n">>,
     lines_match |-> FALSE, decodable |-> TRUE,
     lines |-> <<>>]

F_sb ==
    [path |-> <<<<"s">>, <<"b", ".", "T">>>>, link |-> FALSE, size |-> 1025,
     mtime |-> <<2024, 1, 15, 0>>,
     mime |-> <<"t", "e", "x", "t", "/", "p", "l", "a", "i", "n">>,
     lines_match |-> TRUE, decodable |-> TRUE,
     lines |-> <<>>]

F_sdc ==
    [path |-> <<<<"s">>, <<"d">>, <<"c", ".", "t">>>>, link |-> FALSE, size |-> 2048,
     mtime |-> <<2024, 1, 15, 1>>,
     mime |-> <<"t", "e", "x", "t", "/", "p", "l", "a", "i", "n">>,
     lines_match |-> TRUE, decodable |-> TRUE,
     lines |-> <<>>]

F_hiddendir ==
    [path |-> <<<<".", "g">>, <<"e", ".", "t">>>>, link |-> FALSE, size |-> 500,
     mtime |-> <<2024, 1, 15, 43200>>,
     mime |-> <<"t", "e", "x", "t", "/", "p", "l", "a", "i", "n">>,
     lines_match |-> TRUE, decodable |-> TRUE,
     lines |-> <<>>]

F_link ==
    [path |-> <<<<"l">>>>, link |-> TRUE, size |-> 1025,
     mtime |-> <<2024, 1, 15, 43200>>,
     mime |-> <<"a", "p", "p", "l", "i", "c", "a", "t", "i", "o", "n", "/", "j", "s", "o", "n">>,
     lines_match |-> TRUE, decodable |-> TRUE,
     lines |-> <<>>]

F_linkdir ==
    [path |-> <<<<"k">>, <<"e", ".", "t">>>>, link |-> FALSE, size |-> 1025,
     mtime |-> <<2024, 1, 16, 1>>,
     mime |-> <<"t", "e", "x", "t", "/", "p", "l", "a", "i", "n">>,
     lines_match |-> TRUE, decodable |-> TRUE,
     lines |-> <<>>]

F_binary ==
    [path |-> <<<<"o", ".", "z">>>>, link |-> FALSE, size |-> 1048577,
     mtime |-> <<2024, 1, 15, 43200>>,
     mime |-> <<"i", "m", "a", "g", "e", "/", "p", "n", "g">>,
     lines_match |-> FALSE, decodable |-> FALSE,
     lines |-> <<>>]

F_gitignore ==
    [path |-> <<<<".", "g", "i", "t", "i", "g", "n", "o", "r", "e">>>>, link |-> FALSE, size |-> 500,
     mtime |-> <<2024, 1, 15, 43200>>,
     mime |-> <<"t", "e", "x", "t", "/", "p", "l", "a", "i", "n">>,
     lines_match |-> FALSE, decodable |-> TRUE,
     lines |-> <<<<"#", " ", "s">>, <<>>, <<" ", "s", "/", " ">>, <<"/", "a", ".", "t">>>>]

FileUniverse ==
    {F_a, F_han, F_sb, F_sdc, F_hiddendir, F_link, F_linkdir, F_binary, F_gitignore}

\* directories that are symbolic links
LinkDirs == { <<<<"k">>>> }

MaxFiles == 2
MaxDepthArg == 2
MaxExclude == 1
MaxOptions == 2

Trees == {t \in SUBSET FileUniverse : Cardinality(t) <= MaxFiles}

ExcludeRules ==
    { <<"s", "/">>, <<"/", "a", ".", "t">>, <<"*", ".", "t">> }

SeqsUpTo(S, n) == UNION {[1..k -> S] : k \in 1..n}

SizeFilters ==
    { <<">", "1", "K">>, <<"<", "=", "5", "0", "0", "B">>, <<"b", "a", "d">> }

TimeFilters ==
    { <<"=", "=", "2", "0", "2", "4", "-", "0", "1", "-", "1", "5">>, <<">", "2", "0", "2", "4", "-", "0", "1", "-", "1", "5">>, <<"b", "a", "d">> }

\* the command line with no option given
Defaults ==
    [recursive |-> FALSE, max_depth |-> None, include_invisible |-> FALSE,
     follow_symlinks |-> FALSE, exclude |-> None, gitignore |-> FALSE,
     type |-> None, file_size |-> None, modified_time |-> None,
     content_grep |-> None]

ArgsSpace ==
    [recursive : BOOLEAN,
     max_depth : {None} \cup {<<n>> : n \in 0..MaxDepthArg},
     include_invisible : BOOLEAN,
     follow_symlinks : BOOLEAN,
     exclude : {None} \cup SeqsUpTo(ExcludeRules, MaxExclude),
     gitignore : BOOLEAN,
     type : {None, << <<".", "T">> >>},
     file_size : {None} \cup SizeFilters,
     modified_time : {None} \cup TimeFilters,
     content_grep : {None, <<"a">>}]

\* number of options given on the command line
OptionsGiven(a) == Cardinality({k \in DOMAIN a : a[k] # Defaults[k]})

(* ------------------------------------------------------------------ *)
(* parse_gitignore                                                     *)
(* ------------------------------------------------------------------ *)
GitignoreName == <<".", "g", "i", "t", "i", "g", "n", "o", "r", "e">>

\* the stripped lines that are neither empty nor comments, in file order
RECURSIVE IgnoreLines(_)
IgnoreLines(lines) ==
    IF lines = <<>> THEN <<>>
    ELSE LET line == Strip(Head(lines))
         IN  (IF line # <<>> /\ ~StartsWith(line, <<"#">>) THEN <<line>> ELSE <<>>)
                 \o IgnoreLines(Tail(lines))

\* FileNotFoundError leaves the list empty
parse_gitignore(tree) ==
    IF \E f \in tree : f.path = <<GitignoreName>>
    THEN IgnoreLines((CHOOSE f \in tree : f.path = <<GitignoreName>>).lines)
    ELSE <<>>

(* ------------------------------------------------------------------ *)
(* process_directory                                                   *)
(* ------------------------------------------------------------------ *)

\* the root directory, as a path below itself
root_dir == <<>>

\* os.path.dirname
DirName(path) == SubSeq(path, 1, Len(path) - 1)
\* os.path.basename
BaseName(path) == path[Len(path)]

\* dirpath[len(root_dir):]
RECURSIVE DirSuffix(_)
DirSuffix(dirpath) ==
    IF dirpath = <<>> THEN <<>>
    ELSE <<"/">> \o Head(dirpath) \o DirSuffix(Tail(dirpath))

current_depth(dirpath) == Count(DirSuffix(dirpath), "/")

\* the depth control test that empties dirnames and skips the directory
DepthPruned(a, dirpath) ==
    a.max_depth # None /\ current_depth(dirpath) >= a.max_depth[1]

\* the names os.walk lists in a directory: files, and sub-directories
FileNamesIn(tree, dirpath) ==
    {BaseName(f.path) : f \in {g \in tree : DirName(g.path) = dirpath}}

DirNamesIn(tree, dirpath) ==
    {f.path[Len(dirpath) + 1] :
        f \in {g \in tree : /\ Len(g.path) >= Len(dirpath) + 2
                            /\ SubSeq(g.path, 1, Len(dirpath)) = dirpath}}

FileAt(tree, path) == CHOOSE f \in tree : f.path = path

\* the orders in which a directory listing can come back
Orders(S) ==
    {o \in [1..Cardinality(S) -> S] : \A i, j \in 1..Cardinality(S) : o[i] = o[j] => i = j}

\* os.path.splitext(f)[1]: from the last dot, leading dots not counted
RECURSIVE LastDot(_)
LastDot(name) ==
    IF name = <<>> THEN 0
    ELSE IF name[Len(name)] = "." THEN Len(name)
    ELSE LastDot(SubSeq(name, 1, Len(name) - 1))

SplitExt(name) ==
    LET k == LastDot(name)
    IN  IF k > 0 /\ \E i \in 1..(k - 1) : name[i] # "."
        THEN SubSeq(name, k, Len(name))
        ELSE <<>>

\* the file type filter
TypeFilterPasses(name, types) ==
    LET ext == Lower(SplitExt(name))
    IN  /\ ext # <<>>
        /\ \E i \in 1..Len(types) : Tail(ext) = LStrip(Lower(types[i]), ".")

\* the content regex filter; it is applied to text files only
ContentFilterPasses(f) ==
    is_text_file(f.mime) => (f.decodable /\ f.lines_match)

\* an exclusion check handed the file name instead of the path below the root
ExclusionPasses_NameOnly(path, patterns) ==
    ~should_exclude(BaseName(path), FALSE, patterns)

\* the exclusion check of the walk; a walked file name is never a directory
ExclusionPasses(path, patterns) == ~should_exclude(RelPath(path), FALSE, patterns)

\* the body of the loop over filenames: TRUE when the file is appended
Accepts(a, patterns, f) ==
    /\ ExclusionPasses(f.path, patterns)
    /\ (a.type # None => TypeFilterPasses(BaseName(f.path), a.type))
    /\ (a.file_size # None => SizeFilterPasses(f.size, a.file_size))
    /\ (a.modified_time # None => TimeFilterPasses(f.mtime, a.modified_time))
    /\ (a.content_grep # None => ContentFilterPasses(f))
    /\ is_text_file(f.mime)

\* hidden files handling
HiddenKept(a, name) == a.include_invisible \/ ~StartsWith(name, <<".">>)

\* symbolic links handling, for a file and for a directory
FileLinkKept(a, f) == a.follow_symlinks \/ ~f.link
DirLinkKept(a, path) == a.follow_symlinks \/ path \notin LinkDirs

\* a non-recursive filter that tests the parent with a prefix comparison
NonRecursiveFilter_Prefix(a, files) ==
    IF ~a.recursive
    THEN SelectSeq(files, LAMBDA p : StartsWith(DirName(p), root_dir))
    ELSE files

\* the non-recursive mode filter
NonRecursiveFilter(a, files) ==
    IF ~a.recursive
    THEN SelectSeq(files, LAMBDA p : DirName(p) = root_dir)
    ELSE files

TypeOK ==
    /\ pc \in {"start", "walk", "done", "call", "returned"}
    /\ fs \subseteq FileUniverse

\* lines 216-220: the rule list is built, the walk is about to yield the root
Setup ==
    /\ pc = "start"
    /\ all_exclude_patterns' =
           (IF args.exclude # None THEN args.exclude ELSE <<>>)
               \o (IF args.gitignore THEN parse_gitignore(fs) ELSE <<>>)
    /\ text_files' = <<>>
    /\ pending' = <<root_dir>>
    /\ pc' = "walk"
    /\ UNCHANGED <<args, fs, x_rel, x_isdir, x_patterns, x_result,
                   q_size, q_filter, q_result>>

\* one iteration of the loop over os.walk that stops at the depth control
WalkPruned ==
    /\ pc = "walk"
    /\ pending # <<>>
    /\ DepthPruned(args, Head(pending))
    /\ pending' = Tail(pending)
    /\ UNCHANGED <<args, fs, pc, all_exclude_patterns, text_files,
                   x_rel, x_isdir, x_patterns, x_result, q_size, q_filter, q_result>>

\* one iteration of the loop over os.walk that goes through the directory
WalkVisit ==
    /\ pc = "walk"
    /\ pending # <<>>
    /\ ~DepthPruned(args, Head(pending))
    /\ LET dirpath == Head(pending)
       IN  \E filenames \in Orders(FileNamesIn(fs, dirpath)),
              dirnames \in Orders(DirNamesIn(fs, dirpath)) :
             LET kept_dirs ==
                     SelectSeq(dirnames, LAMBDA d :
                         HiddenKept(args, d) /\ DirLinkKept(args, dirpath \o <<d>>))
                 kept_files ==
                     SelectSeq(filenames, LAMBDA n :
                         HiddenKept(args, n)
                             /\ FileLinkKept(args, FileAt(fs, dirpath \o <<n>>)))
                 accepted ==
                     SelectSeq(kept_files, LAMBDA n :
                         Accepts(args, all_exclude_patterns, FileAt(fs, dirpath \o <<n>>)))
             IN  /\ text_files' =
                        text_files \o [i \in 1..Len(accepted) |-> dirpath \o <<accepted[i]>>]
                 /\ pending' =
                        [i \in 1..Len(kept_dirs) |-> dirpath \o <<kept_dirs[i]>>]
                            \o Tail(pending)
    /\ UNCHANGED <<args, fs, pc, all_exclude_patterns,
                   x_rel, x_isdir, x_patterns, x_result, q_size, q_filter, q_result>>

\* lines 319-325: non-recursive mode filtering, sorting, return
Finish ==
    /\ pc = "walk"
    /\ pending = <<>>
    /\ text_files' = SortByKey(NonRecursiveFilter(args, text_files))
    /\ pc' = "done"
    /\ UNCHANGED <<args, fs, all_exclude_patterns, pending,
                   x_rel, x_isdir, x_patterns, x_result, q_size, q_filter, q_result>>

Init ==
    /\ args \in {a \in ArgsSpace : OptionsGiven(a) <= MaxOptions}
    /\ fs \in Trees
    /\ pc = "start"
    /\ all_exclude_patterns = <<>>
    /\ pending = <<>>
    /\ text_files = <<>>
    /\ x_rel = <<>> /\ x_isdir = FALSE /\ x_patterns = <<>> /\ x_result = FALSE
    /\ q_size = 0 /\ q_filter = <<>> /\ q_result = FALSE

Next == Setup \/ WalkPruned \/ WalkVisit \/ Finish

Spec == Init /\ [][Next]_vars

(* ------------------------------------------------------------------ *)
(* should_exclude on its own: one call on a path and a rule list       *)
(* ------------------------------------------------------------------ *)
MaxRules == 2

RelPathInputs ==
    { <<"b", "u", "i", "l", "d">>,
      <<"b", "u", "i", "l", "d", "/", "o", "u", "t", ".", "o">>,
      <<"b", "u", "i", "l", "d", "/", "s", "u", "b", "/", "f", "i", "l", "e", ".", "t", "x", "t">>,
      <<"r", "e", "b", "u", "i", "l", "d", "/", "f", "i", "l", "e", ".", "t", "x", "t">>,
      <<"f", "o", "o", ".", "t", "x", "t">>,
      <<"s", "u", "b", "/", "f", "o", "o", ".", "t", "x", "t">>,
      <<"f", "o", "o">>,
      <<"s", "u", "b", "/", "f", "o", "o">>,
      <<"a", ".", "l", "o", "g">>,
      <<"s", "u", "b", "/", "a", ".", "l", "o", "g">> }

RuleInputs ==
    { <<"b", "u", "i", "l", "d", "/">>,
      <<"f", "o", "o", ".", "t", "x", "t">>,
      <<"*", ".", "l", "o", "g">>,
      <<"/", "f", "o", "o">>,
      <<"f", "o", "o">>,
      <<"/", "b", "u", "i", "l", "d", "/">>,
      <<"s", "u", "b", "/", "*">>,
      <<"f", "o", "*">> }

InitExclude ==
    /\ x_rel \in RelPathInputs
    /\ x_isdir \in BOOLEAN
    /\ x_patterns \in SeqsUpTo(RuleInputs, MaxRules)
    /\ x_result = FALSE
    /\ pc = "call"
    /\ args = Defaults /\ fs = {} /\ all_exclude_patterns = <<>>
    /\ pending = <<>> /\ text_files = <<>>
    /\ q_size = 0 /\ q_filter = <<>> /\ q_result = FALSE

CallShouldExclude ==
    /\ pc = "call"
    /\ x_patterns # <<>>
    /\ x_result' = should_exclude(x_rel, x_isdir, x_patterns)
    /\ pc' = "returned"
    /\ UNCHANGED <<args, fs, all_exclude_patterns, pending, text_files,
                   x_rel, x_isdir, x_patterns, q_size, q_filter, q_result>>

NextExclude == CallShouldExclude

SpecExclude == InitExclude /\ [][NextExclude]_vars

(* ------------------------------------------------------------------ *)
(* The file size filter on its own: one file size against one filter   *)
(* ------------------------------------------------------------------ *)
FileSizeInputs == {0, 499, 500, 501, 1023, 1024, 1025, 1048575, 1048576, 1048577}

SizeOperatorInputs == { <<">">>, <<"<">>, <<">", "=">>, <<"<", "=">>, <<"=", "=">> }

SizeValueInputs ==
    { <<"5", "0", "0", "B">>,
      <<"1", "K">>,
      <<"1", "k">>,
      <<"1", "M">>,
      <<"1", "G">>,
      <<"1", "0", "2", "4">>,
      <<"0", "B">>,
      <<"K">> }

SizeFilterInputs ==
    {op \o v : op \in SizeOperatorInputs, v \in SizeValueInputs}
        \cup { <<"b", "a", "d">>,
             <<"=", "5">>,
             <<"1", "K">> }

InitSize ==
    /\ q_size \in FileSizeInputs
    /\ q_filter \in SizeFilterInputs
    /\ q_result = FALSE
    /\ pc = "call"
    /\ args = Defaults /\ fs = {} /\ all_exclude_patterns = <<>>
    /\ pending = <<>> /\ text_files = <<>>
    /\ x_rel = <<>> /\ x_isdir = FALSE /\ x_patterns = <<>> /\ x_result = FALSE

ApplySizeFilter ==
    /\ pc = "call"
    /\ q_filter # <<>>
    /\ q_result' = SizeFilterPasses(q_size, q_filter)
    /\ pc' = "returned"
    /\ UNCHANGED <<args, fs, all_exclude_patterns, pending, text_files,
                   x_rel, x_isdir, x_patterns, x_result, q_size, q_filter>>

NextSize == ApplySizeFilter

SpecSize == InitSize /\ [][NextSize]_vars

(* ------------------------------------------------------------------ *)
(* Properties                                                          *)
(* ------------------------------------------------------------------ *)

Returned == {text_files[i] : i \in 1..Len(text_files)}

\* the rule set of the run: explicit rules and ignore-file rules
RulesOfRun ==
    (IF args.exclude # None THEN args.exclude ELSE <<>>)
        \o (IF args.gitignore THEN parse_gitignore(fs) ELSE <<>>)

\* a direct child of the root that the hidden and symlink handling keeps and
\* that passes the exclusion rules and every filter
RootFileAccepted(f) ==
    /\ DirName(f.path) = root_dir
    /\ HiddenKept(args, BaseName(f.path))
    /\ FileLinkKept(args, f)
    /\ Accepts(args, RulesOfRun, f)

\* C1: in the returned list a file with fewer path segments comes before
\* every file with more path segments.
C1_ShallowerFirst ==
    pc = "done" =>
        \A i, j \in 1..Len(text_files) :
            Len(text_files[i]) < Len(text_files[j]) => i < j

\* the operator, number and unit of a size filter of the form <op><N><unit>
SizeFilterOp(filter) == SubSeq(filter, 1, OpPrefixLen(filter))
SizeFilterUnit(filter) == filter[Len(filter)]
SizeFilterNumber(filter) == SubSeq(filter, OpPrefixLen(filter) + 1, Len(filter) - 1)

WellFormedSizeFilter(filter) ==
    /\ SizeFilterOp(filter) \in SizeOperatorInputs
    /\ Len(filter) >= OpPrefixLen(filter) + 2
    /\ SizeFilterUnit(filter) \in {Units[i] : i \in 1..6}
    /\ AllDigits(SizeFilterNumber(filter))

\* C2: a size filter <op><N><unit> with unit in B,K,M,G,T,P accepts a file
\* exactly when (size in bytes) op (N * 1024^index of the unit) holds.
C2_SizeFilterMeaning ==
    (pc = "returned" /\ WellFormedSizeFilter(q_filter)) =>
        LET target == DigitsVal(SizeFilterNumber(q_filter))
                          * Pow1024(UnitIndex(SizeFilterUnit(q_filter)))
        IN  q_result = CompareOp(SizeFilterOp(q_filter), q_size < target, q_size = target)

\* C3: no path in the list of accepted files is matched by an exclusion rule
\* of the run (explicit rules and ignore-file rules).
C3_AcceptedNotExcluded ==
    \A i \in 1..Len(text_files) :
        ~should_exclude(RelPath(text_files[i]), FALSE, RulesOfRun)

\* a finished run with rules that exclude one file of the tree and let
\* another one through
C3_Witness ==
    /\ pc = "done"
    /\ RulesOfRun # <<>>
    /\ text_files # <<>>
    /\ \E f \in fs : should_exclude(RelPath(f.path), FALSE, RulesOfRun)

\* the filter starts with one of >=, <=, ==, >, <
HasRecognizedOperator(filter) ==
    \E op \in SizeOperatorInputs : StartsWith(filter, op)

\* C4: a run whose size or modified-time filter does not start with a
\* recognized operator is aborted; it never returns a file list.
C4_MalformedFilterAborts ==
    pc = "done" =>
        /\ (args.file_size # None => HasRecognizedOperator(args.file_size))
        /\ (args.modified_time # None => HasRecognizedOperator(args.modified_time))

BuildRule == <<"b", "u", "i", "l", "d", "/">>
BuildDir == <<"b", "u", "i", "l", "d">>

\* C5: with the rule 'build/', should_exclude is true for the directory build
\* and for every path beneath it, and false for rebuild/file.txt.
C5_DirectoryRule ==
    (pc = "returned" /\ x_patterns = <<BuildRule>>) =>
        /\ (x_rel = BuildDir /\ x_isdir => x_result)
        /\ (StartsWith(x_rel, BuildRule) => x_result)
        /\ (x_rel = <<"r", "e", "b", "u", "i", "l", "d", "/", "f", "i", "l", "e", ".", "t", "x", "t">> => ~x_result)

\* C6: with max depth 0 the returned files are exactly the direct children of
\* the root that pass the exclusion rules and the filters.
C6_DepthZeroIsRootChildren ==
    (pc = "done" /\ args.max_depth = <<0>>) =>
        Returned = {f.path : f \in {g \in fs : RootFileAccepted(g)}}

\* the path below the root as the string it is printed with
PathString(path) == RelPath(path)

IndexOf(files, p) == CHOOSE i \in 1..Len(files) : files[i] = p

C8_NonRecursiveOnlyRoot ==
    (pc = "done" /\ ~args.recursive) =>
        /\ \A p \in Returned : DirName(p) = root_dir
        /\ \A f \in fs :
               (RootFileAccepted(f) /\ ~DepthPruned(args, root_dir)) => f.path \in Returned

\* a finished non-recursive run over a.t and s/b.T, both acceptable, that
\* returns a.t alone
C8_Witness ==
    /\ pc = "done"
    /\ ~args.recursive
    /\ {f.path : f \in fs} = { <<<<"a", ".", "t">>>>, <<<<"s">>, <<"b", ".", "T">>>> }
    /\ Accepts(args, RulesOfRun, F_sb)
    /\ text_files = << <<<<"a", ".", "t">>>> >>

\* the last segment of a path string
RECURSIVE LastSegment(_)
LastSegment(rel) ==
    IF ~Contains(rel, "/") THEN rel
    ELSE LastSegment(Tail(rel))

\* C9: a rule without a path separator matches every path whose basename
\* matches it, at any depth, the root included.
C9_BasenameRuleAnyDepth ==
    (/\ pc = "returned"
     /\ Len(x_patterns) = 1
     /\ ~Contains(x_patterns[1], "/")
     /\ fnmatch(LastSegment(x_rel), x_patterns[1])) => x_result

\* C10: a rule beginning with '/' matches a path only when the path equals
\* the rule without its leading separator.
C10_AnchoredRuleExact ==
    (/\ pc = "returned"
     /\ Len(x_patterns) = 1
     /\ StartsWith(x_patterns[1], <<"/">>)
     /\ ~EndsWith(x_patterns[1], <<"/">>)
     /\ x_result) => x_rel = Tail(x_patterns[1])

====
